---- MODULE Spec2Model ----
(***************************************************************************)
(* Model of the three post-processing tools of the site repository:        *)
(*   spaces.py      the Markdown reformatter      (specification SpecFmt)  *)
(*   fix_dates.py   the date normalizer           (specification SpecDate) *)
(*   automation.py  the Notion archive importer   (specification SpecImp)  *)
(*                                                                         *)
(* Text is a sequence of tokens.  A token is a one-character string, or    *)
(* one of a few literals that the programs only ever treat as a unit       *)
(* ("imagesstyle.css", "date:", "<img", "src=", the fixed pieces of the    *)
(* templates).  A line is a text that holds "\n" at most as its last       *)
(* token; a file is the concatenation of its lines.                        *)
(***************************************************************************)
EXTENDS Naturals, Sequences, FiniteSets, TLC

VARIABLES
    \* ---- spaces.py: one post file, its backup, one process_file() run
    file,        \* tokens of _posts/<name>.md on disk
    bak,         \* tokens of <name>.md.bak, or NoFile
    dry_run,     \* args.dry_run
    fpc,         \* position inside process_file
    original,    \* f.readlines()
    new_lines,   \* front + new_content
    ret,         \* what process_file returned ("none" while it runs)
    ops,         \* the filesystem writes made so far, in order
    runs,        \* number of process_file() calls started on the file
    \* ---- fix_dates.py: one file and one fix_date_in_file() call
    dfile,       \* tokens of the file on disk
    dtext,       \* text (what read_text returned)
    dnew,        \* new_text
    dpc,         \* position inside fix_date_in_file
    dlog,        \* what was printed: "none", "OK", "INFO"
    dwrites,     \* number of write_text calls
    \* ---- automation.py: main() over the archives, process_zip() on one
    mtime,       \* archive id -> st_mtime
    queue,       \* archives main() still has to hand to process_zip, in order
    mpc,         \* position inside main: "loop", "in_zip", "done", "crashed"
    zcur,        \* the archive process_zip is working on (0: none)
    zpc,         \* position inside process_zip
    tmpdirs,     \* the scratch directories that exist (by archive id)
    exc,         \* an exception is propagating out of the try block
    tree,        \* the extracted tree: [md, imgs, text]
    todo,        \* images collect_images() returned that are not yet copied
    assets,      \* IMAGES_DIR/slug of the archive at work: stored name -> image
                 \* copied there (empty again once process_zip has left: the
                 \* directories of different slugs do not meet)
    mapping,     \* mapping: key -> stored name (a local of process_zip)
    md_text,     \* md_text (a local of process_zip)
    posts,       \* _posts: the slugs of the posts written
    outcome      \* how each process_zip call ended, in order: [zip, how]

fvars == <<file, bak, dry_run, fpc, original, new_lines, ret, ops, runs>>
dvars == <<dfile, dtext, dnew, dpc, dlog, dwrites>>
ivars == <<mtime, queue, mpc, zcur, zpc, tmpdirs, exc, tree, todo, assets,
           mapping, md_text, posts, outcome>>
vars == <<fvars, dvars, ivars>>

\* ------------------------------------------------------------------ bounds
MaxLines == 4
MaxRuns == 2

\* ------------------------------------------------------------ text helpers
NL == "\n"
\* the backquote character (a string of the module cannot hold it)
BQ == "<backquote>"
NoFile == <<"<absent>">>

\* str.isspace on one token
IsSpace(c) == c \in {" ", "\t", "\n", "\r"}

RECURSIVE lstrip(_)
lstrip(s) == IF s # <<>> /\ IsSpace(Head(s)) THEN lstrip(Tail(s)) ELSE s

RECURSIVE rstrip(_)
rstrip(s) ==
    IF s # <<>> /\ IsSpace(s[Len(s)]) THEN rstrip(SubSeq(s, 1, Len(s) - 1)) ELSE s

\* str.strip()
strip(s) == lstrip(rstrip(s))

\* "".join(lines), and what f.writelines(lines) puts in the file
RECURSIVE Join(_)
Join(lines) == IF lines = <<>> THEN <<>> ELSE Head(lines) \o Join(Tail(lines))

\* f.readlines(): split after every "\n"; a last line may lack it
RECURSIVE readlines_from(_, _)
readlines_from(text, cur) ==
    IF text = <<>> THEN (IF cur = <<>> THEN <<>> ELSE <<cur>>)
    ELSE IF Head(text) = NL
         THEN <<Append(cur, NL)>> \o readlines_from(Tail(text), <<>>)
         ELSE readlines_from(Tail(text), Append(cur, Head(text)))

readlines(text) == readlines_from(text, <<>>)

\* line.endswith("\n")
EndsNL(line) == line # <<>> /\ line[Len(line)] = NL

\* the idiom  line if line.endswith("\n") else line + "\n"
WithNL(line) == IF EndsNL(line) THEN line ELSE Append(line, NL)

\* ============================================================== spaces.py
CSS_NEEDLE == "imagesstyle.css"
CSS_LINK_LINE ==
    <<"<link rel=\"stylesheet\" href=\"{{ '/assets/css/", CSS_NEEDLE,
      "' | relative_url }}\">">>

\* RE_HEADER = ^(#{1,6})\s+\S  matched at the start of s
RECURSIVE CountHash(_)
CountHash(s) == IF s # <<>> /\ Head(s) = "#" THEN 1 + CountHash(Tail(s)) ELSE 0

RE_HEADER(s) ==
    LET n == CountHash(s)
        after == SubSeq(s, n + 1, Len(s))
    IN  /\ n >= 1 /\ n <= 6
        /\ after # <<>> /\ IsSpace(Head(after))
        /\ lstrip(after) # <<>>

\* RE_IMAGE = !\[[^\]]*\]\([^)]+\)  searched anywhere in s
RE_IMAGE_at(s, i) ==
    /\ i + 1 <= Len(s) /\ s[i] = "!" /\ s[i + 1] = "["
    /\ \E j \in (i + 2)..Len(s) :
          /\ s[j] = "]"
          /\ \A k \in (i + 2)..(j - 1) : s[k] # "]"
          /\ j + 1 <= Len(s) /\ s[j + 1] = "("
          /\ \E e \in (j + 3)..Len(s) :
                /\ s[e] = ")"
                /\ \A k \in (j + 2)..(e - 1) : s[k] # ")"

RE_IMAGE(s) == \E i \in 1..Len(s) : RE_IMAGE_at(s, i)

\* RE_FENCE = ^(```|~~~)  matched at the start of s
RE_FENCE(s) ==
    /\ Len(s) >= 3
    /\ SubSeq(s, 1, 3) \in {<<BQ, BQ, BQ>>, <<"~", "~", "~">>}

IsBlank(line) == strip(line) = <<>>

\* split_front_matter(lines): the index of the line closing the front
\* matter, 0 when there is none
FrontEnd(lines) ==
    IF lines = <<>> \/ strip(lines[1]) # <<"-", "-", "-">> THEN 0
    ELSE LET closing == {i \in 2..Len(lines) : strip(lines[i]) = <<"-", "-", "-">>}
         IN  IF closing = {} THEN 0
             ELSE CHOOSE i \in closing : \A j \in closing : i <= j

split_front(lines) == SubSeq(lines, 1, FrontEnd(lines))
split_content(lines) == SubSeq(lines, FrontEnd(lines) + 1, Len(lines))

\* in_code = not in_code
FenceToggleStuck(in_code) == FALSE
FenceToggle(in_code) == ~in_code

\* the blank line an image or a heading gets before it
BlankBefore(out) ==
    IF out # <<>> /\ ~IsBlank(out[Len(out)]) THEN Append(out, <<NL>>) ELSE out

\* the blank line an image or a heading gets after it
BlankAfter(out, lines, i) ==
    IF i + 1 <= Len(lines) /\ ~IsBlank(lines[i + 1]) THEN Append(out, <<NL>>) ELSE out

\* the while loop of process_content_lines, from line i on
RECURSIVE pcl_loop(_, _, _, _)
pcl_loop(lines, i, out, in_code) ==
    IF i > Len(lines) THEN out
    ELSE LET line == lines[i]
             stripped == strip(line)
         IN  IF RE_FENCE(stripped)
             THEN pcl_loop(lines, i + 1, Append(out, line), FenceToggle(in_code))
             ELSE IF in_code
             THEN pcl_loop(lines, i + 1, Append(out, line), in_code)
             ELSE IF RE_IMAGE(stripped) \/ RE_HEADER(stripped)
             THEN pcl_loop(lines, i + 1,
                           BlankAfter(Append(BlankBefore(out), WithNL(line)), lines, i),
                           in_code)
             ELSE IF stripped = <<>>
             THEN pcl_loop(lines, i + 1,
                           IF out = <<>> \/ ~IsBlank(out[Len(out)])
                           THEN Append(out, <<NL>>) ELSE out,
                           in_code)
             ELSE pcl_loop(lines, i + 1, Append(out, WithNL(line)), in_code)

process_content_lines(lines) == pcl_loop(lines, 1, <<>>, FALSE)

\* needle in joined
HasNeedle(lines) == \E i \in 1..Len(Join(lines)) : Join(lines)[i] = CSS_NEEDLE

append_css_link_if_missing(lines) ==
    IF HasNeedle(lines) THEN lines
    ELSE LET sep == IF lines # <<>> /\ ~IsBlank(lines[Len(lines)])
                    THEN Append(lines, <<NL>>) ELSE lines
         IN  sep \o <<<<NL>>, Append(CSS_LINK_LINE, NL)>>

\* process_file, lines 158-163
Transform(lines) ==
    split_front(lines) \o
        append_css_link_if_missing(process_content_lines(split_content(lines)))

\* new_lines == original is False
ChangedAlways(a, b) == TRUE
Changed(a, b) == a # b

\* ---- the sample lines a post is made of (without their line ending)
LineTexts ==
    { <<"-", "-", "-">>,                    \* front matter delimiter
      <<>>,                                 \* blank
      <<" ">>,                              \* blank, with a space
      <<"t">>,                              \* text
      <<"#", " ", "h">>,                    \* heading
      <<"!", "[", "]", "(", "u", ")">>,     \* image
      <<BQ, BQ, BQ>>,                    \* fence
      <<"~", "~", "~">>,                    \* fence, the other marker
      <<CSS_NEEDLE>> }                      \* text holding the marker

RECURSIVE SeqsUpTo(_, _)
SeqsUpTo(S, n) ==
    IF n = 0 THEN {<<>>}
    ELSE LET shorter == SeqsUpTo(S, n - 1)
         IN  shorter \cup {Append(s, x) : s \in {t \in shorter : Len(t) = n - 1}, x \in S}

\* the text of a file with the given lines; eol says whether the last line
\* has its line ending
FileOf(lines, eol) ==
    LET all == Join([i \in 1..Len(lines) |-> Append(lines[i], NL)])
    IN  IF eol \/ all = <<>> THEN all ELSE SubSeq(all, 1, Len(all) - 1)

FmtInit ==
    /\ \E lines \in SeqsUpTo(LineTexts, MaxLines), eol \in BOOLEAN :
          file = FileOf(lines, eol)
    /\ bak = NoFile
    /\ dry_run \in BOOLEAN
    /\ fpc = "start"
    /\ original = <<>>
    /\ new_lines = <<>>
    /\ ret = "none"
    /\ ops = <<>>
    /\ runs = 1
    \* the other tools are not running
    /\ dfile = <<>> /\ dtext = <<>> /\ dnew = <<>> /\ dpc = "idle"
    /\ dlog = "none" /\ dwrites = 0
    /\ mtime = <<>> /\ queue = <<>> /\ mpc = "idle" /\ zcur = 0 /\ zpc = "idle"
    /\ tmpdirs = {} /\ exc = FALSE /\ tree = <<>> /\ todo = <<>>
    /\ assets = <<>> /\ mapping = <<>> /\ md_text = <<>> /\ posts = {}
    /\ outcome = <<>>

\* lines 155-163: read the file, build new_lines
ReadTransform ==
    /\ fpc = "start"
    /\ original' = readlines(file)
    /\ new_lines' = Transform(readlines(file))
    /\ fpc' = "compare"
    /\ UNCHANGED <<file, bak, dry_run, ret, ops, runs, dvars, ivars>>

\* lines 165-166: nothing changed, return False
ReturnUnchanged ==
    /\ fpc = "compare"
    /\ ~Changed(new_lines, original)
    /\ ret' = "False"
    /\ fpc' = "returned"
    /\ UNCHANGED <<file, bak, dry_run, original, new_lines, ops, runs, dvars, ivars>>

\* lines 168-170: dry run, report and return True
ReturnDry ==
    /\ fpc = "compare"
    /\ Changed(new_lines, original)
    /\ dry_run
    /\ ret' = "True"
    /\ fpc' = "returned"
    /\ UNCHANGED <<file, bak, dry_run, original, new_lines, ops, runs, dvars, ivars>>

\* lines 172-174: shutil.copy2(path, backup)
Backup ==
    /\ fpc = "compare"
    /\ Changed(new_lines, original)
    /\ ~dry_run
    /\ bak' = file
    /\ ops' = Append(ops, "copy2")
    /\ fpc' = "backed_up"
    /\ UNCHANGED <<file, dry_run, original, new_lines, ret, runs, dvars, ivars>>

\* lines 176-180: f.writelines(new_lines), return True
Write ==
    /\ fpc = "backed_up"
    /\ file' = Join(new_lines)
    /\ ops' = Append(ops, "write")
    /\ ret' = "True"
    /\ fpc' = "returned"
    /\ UNCHANGED <<bak, dry_run, original, new_lines, runs, dvars, ivars>>

\* the program is run again on the same _posts directory
RunAgain ==
    /\ fpc = "returned"
    /\ runs < MaxRuns
    /\ runs' = runs + 1
    /\ fpc' = "start"
    /\ ret' = "none"
    /\ original' = <<>>
    /\ new_lines' = <<>>
    /\ UNCHANGED <<file, bak, dry_run, ops, dvars, ivars>>

FmtNext ==
    \/ ReadTransform
    \/ ReturnUnchanged
    \/ ReturnDry
    \/ Backup
    \/ Write
    \/ RunAgain

\* ============================================================ fix_dates.py
NEW_DATE == "2025-07-17 12:05:57 -0400"

MaxTextLen == 6

\* ^ under re.MULTILINE: at the start of the text and after every "\n"
AtLineStart(text, p) == p = 1 \/ text[p - 1] = NL

\* \s+ , greedy: the position after the longest run of whitespace tokens
\* (line endings among them) that starts at position p
RECURSIVE DateSpaceEnd(_, _)
DateSpaceEnd(text, p) ==
    IF p <= Len(text) /\ IsSpace(text[p]) THEN DateSpaceEnd(text, p + 1) ELSE p

\* .* , greedy: the position after the longest run of tokens other than
\* "\n" that starts at position p
RECURSIVE DateRestEnd(_, _)
DateRestEnd(text, p) ==
    IF p <= Len(text) /\ text[p] # NL THEN DateRestEnd(text, p + 1) ELSE p

\* ^date:\s+.*$  matched at position p: 0 when it does not match, else the
\* position after the match.  \s+ and .* are greedy and $ holds wherever .*
\* stops (before a "\n" or at the end), so the first try is the match.
DateMatchEnd(text, p) ==
    IF /\ p <= Len(text) /\ AtLineStart(text, p) /\ text[p] = "date:"
       /\ p + 1 <= Len(text) /\ IsSpace(text[p + 1])
    THEN DateRestEnd(text, DateSpaceEnd(text, p + 1))
    ELSE 0

DateRepl == <<"date:", " ", " ", " ", NEW_DATE>>

\* re.sub(pattern, repl, text, flags=re.MULTILINE), from position p on
RECURSIVE date_sub(_, _)
date_sub(text, p) ==
    IF p > Len(text) THEN <<>>
    ELSE IF DateMatchEnd(text, p) # 0
         THEN DateRepl \o date_sub(text, DateMatchEnd(text, p))
         ELSE <<text[p]>> \o date_sub(text, p + 1)

DateTokens == {"date:", " ", NL, "x", NEW_DATE}

DateInit ==
    /\ dfile \in SeqsUpTo(DateTokens, MaxTextLen)
    /\ dtext = <<>>
    /\ dnew = <<>>
    /\ dpc = "start"
    /\ dlog = "none"
    /\ dwrites = 0
    \* the other tools are not running
    /\ file = <<>> /\ bak = NoFile /\ dry_run = FALSE /\ fpc = "idle"
    /\ original = <<>> /\ new_lines = <<>> /\ ret = "none" /\ ops = <<>>
    /\ runs = 0
    /\ mtime = <<>> /\ queue = <<>> /\ mpc = "idle" /\ zcur = 0 /\ zpc = "idle"
    /\ tmpdirs = {} /\ exc = FALSE /\ tree = <<>> /\ todo = <<>>
    /\ assets = <<>> /\ mapping = <<>> /\ md_text = <<>> /\ posts = {}
    /\ outcome = <<>>

\* lines 12-14: read_text, re.sub
DateRead ==
    /\ dpc = "start"
    /\ dtext' = dfile
    /\ dnew' = date_sub(dfile, 1)
    /\ dpc' = "compare"
    /\ UNCHANGED <<dfile, dlog, dwrites, fvars, ivars>>

\* lines 15-17: new_text != text, write_text
DateWrite ==
    /\ dpc = "compare"
    /\ dnew # dtext
    /\ dfile' = dnew
    /\ dwrites' = dwrites + 1
    /\ dlog' = "OK"
    /\ dpc' = "done"
    /\ UNCHANGED <<dtext, dnew, fvars, ivars>>

\* lines 18-19: nothing to change
DateInfo ==
    /\ dpc = "compare"
    /\ dnew = dtext
    /\ dlog' = "INFO"
    /\ dpc' = "done"
    /\ UNCHANGED <<dfile, dtext, dnew, dwrites, fvars, ivars>>

DateNext ==
    \/ DateRead
    \/ DateWrite
    \/ DateInfo

\* =========================================================== automation.py
MaxZips == 2
MaxImages == 3

Q == "\""
Letters == <<"a", "b", "c", "d", "e", "f", "g", "h", "i", "j", "k", "l", "m",
             "n", "o", "p", "q", "r", "s", "t", "u", "v", "w", "x", "y", "z">>
Capitals == <<"A", "B", "C", "D", "E", "F", "G", "H", "I", "J", "K", "L", "M",
              "N", "O", "P", "Q", "R", "S", "T", "U", "V", "W", "X", "Y", "Z">>
Digits == <<"0", "1", "2", "3", "4", "5", "6", "7", "8", "9">>

Range(f) == {f[i] : i \in DOMAIN f}

IsUpper(c) == c \in Range(Capitals)
IsDigit(c) == c \in Range(Digits)

\* str.lower(), token by token
LowerTok(c) ==
    IF IsUpper(c) THEN Letters[CHOOSE i \in DOMAIN Capitals : Capitals[i] = c] ELSE c

lower(s) == [i \in 1..Len(s) |-> LowerTok(s[i])]

\* re.sub(r"[^...]+", sep, s): every maximal run of tokens that are not
\* kept becomes one sep (prev: the token before was part of such a run)
RECURSIVE SubRuns(_, _, _, _)
SubRuns(s, keep, sep, prev) ==
    IF s = <<>> THEN <<>>
    ELSE IF Head(s) \in keep
         THEN <<Head(s)>> \o SubRuns(Tail(s), keep, sep, FALSE)
         ELSE (IF prev THEN <<>> ELSE <<sep>>) \o SubRuns(Tail(s), keep, sep, TRUE)

\* str.strip(ch)
RECURSIVE StripTok(_, _)
StripTok(s, ch) ==
    IF s # <<>> /\ Head(s) = ch THEN StripTok(Tail(s), ch)
    ELSE IF s # <<>> /\ s[Len(s)] = ch THEN StripTok(SubSeq(s, 1, Len(s) - 1), ch)
    ELSE s

\* slugify(name), for the ASCII names of the model (NFKD and the ascii
\* round trip leave them as they are)
slugify(name) ==
    LET slug == StripTok(SubRuns(lower(name), Range(Letters) \cup Range(Digits),
                                 "-", FALSE), "-")
    IN  IF slug = <<>> THEN <<"p", "o", "s", "t">> ELSE slug

\* urllib.parse.unquote: "%" and two hexadecimal digits become the character
\* they encode.  %20 and %5F are the escapes the model's names use; "?"
\* stands for the character of any other code.
HexCode(h1, h2) ==
    IF <<h1, h2>> = <<"2", "0">> THEN " "
    ELSE IF <<h1, h2>> = <<"5", "F">> THEN "_"
    ELSE "?"

IsHex(c) == IsDigit(c) \/ c \in {"a", "b", "c", "d", "e", "f", "A", "B", "C", "D", "E", "F"}

RECURSIVE unquote(_)
unquote(s) ==
    IF s = <<>> THEN <<>>
    ELSE IF Head(s) = "%" /\ Len(s) >= 3 /\ IsHex(s[2]) /\ IsHex(s[3])
         THEN <<HexCode(s[2], s[3])>> \o unquote(SubSeq(s, 4, Len(s)))
         ELSE <<Head(s)>> \o unquote(Tail(s))

\* os.path.basename: what follows the last "/"
basename(p) ==
    LET slashes == {i \in 1..Len(p) : p[i] = "/"}
    IN  IF slashes = {} THEN p
        ELSE SubSeq(p, (CHOOSE i \in slashes : \A j \in slashes : j <= i) + 1, Len(p))

\* os.path.splitext: the index of the dot that starts the extension, 0 when
\* there is none (a dot with only dots before it starts no extension)
ExtDot(name) ==
    LET dots == {i \in 1..Len(name) : name[i] = "."}
    IN  IF dots = {} THEN 0
        ELSE LET last == CHOOSE i \in dots : \A j \in dots : j <= i
             IN  IF \E k \in 1..(last - 1) : name[k] # "." THEN last ELSE 0

splitext_base(name) ==
    IF ExtDot(name) = 0 THEN name ELSE SubSeq(name, 1, ExtDot(name) - 1)
splitext_ext(name) ==
    IF ExtDot(name) = 0 THEN <<>> ELSE SubSeq(name, ExtDot(name), Len(name))

IMG_EXTS ==
    { <<".", "p", "n", "g">>, <<".", "j", "p", "g">>, <<".", "j", "p", "e", "g">>,
      <<".", "g", "i", "f">>, <<".", "w", "e", "b", "p">> }

sanitize_img(name) ==
    LET bn == basename(name)
        clean == StripTok(SubRuns(unquote(splitext_base(bn)),
                                  Range(Letters) \cup Range(Capitals) \cup Range(Digits),
                                  "_", FALSE), "_")
        base == IF clean = <<>> THEN <<"i", "m", "g">> ELSE clean
        ext0 == IF splitext_ext(bn) # <<>> THEN lower(splitext_ext(bn))
                ELSE <<".", "p", "n", "g">>
        ext == IF ext0 \notin IMG_EXTS THEN <<".", "p", "n", "g">> ELSE ext0
    IN  base \o ext

build_new_img_name_fallback(slug, orig_path) ==
    slug \o <<"_", "i", "m", "g">> \o splitext_ext(sanitize_img(orig_path))
build_new_img_name(slug, orig_path) == slug \o <<"_">> \o sanitize_img(orig_path)

EmptyMap == [x \in {} |-> x]

\* mapping.get(key): <<>> for None
MapGet(m, key) == IF key \in DOMAIN m THEN m[key] ELSE <<>>

\* m[key] = value
MapSet(m, key, value) == [k \in DOMAIN m \cup {key} |-> IF k = key THEN value ELSE m[k]]

\* the templated path both rewrites put in place of a source
Templated(slug, new_fn) ==
    <<"{{ '", "/assets/images/">> \o slug \o <<"/">> \o new_fn \o <<"' | relative_url }}">>

\* key = os.path.basename(unquote(src.strip())).lower()
SrcKey(src) == lower(basename(unquote(strip(src))))

\* the first index >= p of a token in set S, Len + 1 when there is none
FirstIn(text, p, S) ==
    LET hits == {i \in p..Len(text) : text[i] \in S}
    IN  IF hits = {} THEN Len(text) + 1 ELSE CHOOSE i \in hits : \A j \in hits : i <= j

\* MD_IMG_RE = !\[(?P<alt>[^\]]*)\]\((?P<src>[^)]+)\)  matched at position
\* p: <<>> when it does not match, else <<index of "]", index of ")">>
MdMatch(text, p) ==
    IF p + 1 <= Len(text) /\ text[p] = "!" /\ text[p + 1] = "["
    THEN LET j == FirstIn(text, p + 2, {"]"})
             e == FirstIn(text, j + 2, {")"})
         IN  IF j + 1 <= Len(text) /\ text[j + 1] = "(" /\ e <= Len(text) /\ e >= j + 3
             THEN <<j, e>> ELSE <<>>
    ELSE <<>>

\* _sub of replace_markdown_images, for the match at p
MdRepl(text, p, mapping_, slug) ==
    LET j == MdMatch(text, p)[1]
        e == MdMatch(text, p)[2]
        alt == SubSeq(text, p + 2, j - 1)
        src == SubSeq(text, j + 2, e - 1)
        new_fn == MapGet(mapping_, SrcKey(src))
    IN  IF new_fn = <<>> THEN SubSeq(text, p, e)
        ELSE <<"!", "[">> \o alt \o <<"]", "(">> \o Templated(slug, new_fn) \o <<")">>

\* MD_IMG_RE.sub(_sub, text), from position p on
RECURSIVE md_sub(_, _, _, _)
md_sub(text, p, mapping_, slug) ==
    IF p > Len(text) THEN <<>>
    ELSE IF MdMatch(text, p) # <<>>
         THEN MdRepl(text, p, mapping_, slug)
                  \o md_sub(text, MdMatch(text, p)[2] + 1, mapping_, slug)
         ELSE <<text[p]>> \o md_sub(text, p + 1, mapping_, slug)

replace_markdown_images(text, mapping_, slug) == md_sub(text, 1, mapping_, slug)

\* HTML_IMG_RE = <img\s+[^>]*src=["'](?P<src>[^"']+)["'](?P<rest>[^>]*)>
\* with "src=" at index q: <<>> when the rest of the pattern does not match
\* there, else <<q, index of the closing quote, index of ">">>
HtmlTail(text, q) ==
    IF q + 1 <= Len(text) /\ text[q] = "src=" /\ text[q + 1] \in {Q, "'"}
    THEN LET r == FirstIn(text, q + 2, {Q, "'"})
             e == FirstIn(text, r + 1, {">"})
         IN  IF r <= Len(text) /\ r >= q + 3 /\ e <= Len(text)
             THEN <<q, r, e>> ELSE <<>>
    ELSE <<>>

\* the pattern matched at position p: [^>]* is greedy, so the match is the
\* one with the last "src=" before the first ">" for which the rest matches
HtmlMatch(text, p) ==
    IF p + 1 <= Len(text) /\ text[p] = "<img" /\ IsSpace(text[p + 1])
    THEN LET g == FirstIn(text, p + 1, {">"})
             qs == {q \in (p + 2)..(g - 1) : HtmlTail(text, q) # <<>>}
         IN  IF qs = {} THEN <<>>
             ELSE HtmlTail(text, CHOOSE q \in qs : \A q2 \in qs : q2 <= q)
    ELSE <<>>

\* _sub of replace_html_images, for the match at p
HtmlRepl(text, p, mapping_, slug) ==
    LET q == HtmlMatch(text, p)[1]
        r == HtmlMatch(text, p)[2]
        e == HtmlMatch(text, p)[3]
        src == SubSeq(text, q + 2, r - 1)
        rest == SubSeq(text, r + 1, e - 1)
        new_fn == MapGet(mapping_, SrcKey(src))
    IN  IF new_fn = <<>> THEN SubSeq(text, p, e)
        ELSE <<"<img", " ", "src=", Q>> \o Templated(slug, new_fn) \o <<Q>>
                 \o rest \o <<">">>

\* HTML_IMG_RE.sub(_sub, text), from position p on
RECURSIVE html_sub(_, _, _, _)
html_sub(text, p, mapping_, slug) ==
    IF p > Len(text) THEN <<>>
    ELSE IF HtmlMatch(text, p) # <<>>
         THEN HtmlRepl(text, p, mapping_, slug)
                  \o html_sub(text, HtmlMatch(text, p)[3] + 1, mapping_, slug)
         ELSE <<text[p]>> \o html_sub(text, p + 1, mapping_, slug)

replace_html_images(text, mapping_, slug) == html_sub(text, 1, mapping_, slug)

\* ---- the archives of the model
Zips == 1..MaxZips

\* zip_path.stem of archive z: "No 1", "No 2", ...
ZipStem(z) == <<"N", "o", " ", Digits[z + 1]>>
Slug(z) == slugify(ZipStem(z))

\* the image files an archive may hold: [dir, name]
ImgNames ==
    { <<"a", " ", "b", ".", "p", "n", "g">>,        \* a b.png
      <<"a", "_", "b", ".", "p", "n", "g">>,        \* a_b.png
      <<"A", "_", "B", ".", "P", "N", "G">>,        \* A_B.PNG
      <<"c", ".", "p", "n", "g">> }                 \* c.png
\* every name at the top of the archive, and c.png in a subdirectory too
ImgPaths ==
    [dir : {""}, name : ImgNames] \cup [dir : {"sub"}, name : {<<"c", ".", "p", "n", "g">>}]

\* collect_images(tmpdir): the image files in traversal order, each path once
ImgLists == {l \in SeqsUpTo(ImgPaths, MaxImages) :
                \A i, j \in 1..Len(l) : i # j => l[i] # l[j]}

\* the markdown documents an archive may hold
MdTexts ==
    { <<"t">>,
      <<"!", "[", "x", "]", "(", "a", "%", "2", "0", "b", ".", "p", "n", "g", ")">>,
      <<"<img", " ", "alt=x", " ", "src=", Q, "a", "_", "b", ".", "p", "n", "g", Q,
        " ", "w=3", ">">>,
      <<"<img", " ", "src=", "'", "i", "/", "c", ".", "p", "n", "g", "'", " ", "w=3", ">",
        "<img", " ", "src=", Q, "c", ".", "p", "n", "g", Q, ">">>,
      <<"<img", " ", "alt=x", " ", "src=", Q, "z", ".", "p", "n", "g", Q, ">">> }

\* what an archive may extract to: images, and a markdown file or none
Trees ==
    [md : {TRUE}, imgs : ImgLists, text : MdTexts]
        \cup [md : {FALSE}, imgs : ImgLists, text : {<<>>}]
NoTree == [md |-> FALSE, imgs |-> <<>>, text |-> <<>>]

\* sorted(zips, key=st_mtime): an order of all archives that ascends in mtime
\* (archives of equal mtime keep the order glob() gave them, any order)
SortedByMtime(mt) ==
    {o \in [Zips -> Zips] :
        /\ \A i, j \in Zips : i # j => o[i] # o[j]
        /\ \A i, j \in Zips : i < j => mt[o[i]] <= mt[o[j]]}

\* lines 107-110: one image copied and entered in the mapping
CopyAssets(a, slug, img) == MapSet(a, build_new_img_name(slug, img.name), img)
CopyMapping(m, slug, img) ==
    MapSet(MapSet(m, lower(img.name), build_new_img_name(slug, img.name)),
           lower(sanitize_img(img.name)), build_new_img_name(slug, img.name))

ImpInit ==
    /\ mtime \in {mt \in [Zips -> Zips] : \A i, j \in Zips : i # j => mt[i] # mt[j]}
    /\ queue = <<>>
    /\ mpc = "start"
    /\ zcur = 0
    /\ zpc = "idle"
    /\ tmpdirs = {}
    /\ exc = FALSE
    /\ tree = NoTree
    /\ todo = <<>>
    /\ assets = EmptyMap
    /\ mapping = EmptyMap
    /\ md_text = <<>>
    /\ posts = {}
    /\ outcome = <<>>
    \* the other tools are not running
    /\ file = <<>> /\ bak = NoFile /\ dry_run = FALSE /\ fpc = "idle"
    /\ original = <<>> /\ new_lines = <<>> /\ ret = "none" /\ ops = <<>>
    /\ runs = 0
    /\ dfile = <<>> /\ dtext = <<>> /\ dnew = <<>> /\ dpc = "idle"
    /\ dlog = "none" /\ dwrites = 0

\* main, lines 143-149: no argument, or not a directory
MainUsage ==
    /\ mpc = "start"
    /\ mpc' = "usage"
    /\ UNCHANGED <<mtime, queue, zcur, zpc, tmpdirs, exc, tree, todo, assets,
                   mapping, md_text, posts, outcome, fvars, dvars>>

\* main, line 151: the archives sorted by modification time
MainSort ==
    /\ mpc = "start"
    /\ queue' \in SortedByMtime(mtime)
    /\ mpc' = "loop"
    /\ UNCHANGED <<mtime, zcur, zpc, tmpdirs, exc, tree, todo, assets,
                   mapping, md_text, posts, outcome, fvars, dvars>>

\* main, line 151: the loop is over
MainDone ==
    /\ mpc = "loop"
    /\ queue = <<>>
    /\ mpc' = "done"
    /\ UNCHANGED <<mtime, queue, zcur, zpc, tmpdirs, exc, tree, todo, assets,
                   mapping, md_text, posts, outcome, fvars, dvars>>

\* main, line 152, and process_zip, lines 84-87: slug, mkdtemp
ZipStart ==
    /\ mpc = "loop"
    /\ queue # <<>>
    /\ zcur' = Head(queue)
    /\ queue' = Tail(queue)
    /\ tmpdirs' = tmpdirs \cup {Head(queue)}
    /\ mpc' = "in_zip"
    /\ zpc' = "extract"
    /\ UNCHANGED <<mtime, exc, tree, todo, assets, mapping, md_text, posts,
                   outcome, fvars, dvars>>

\* lines 89-90: the archive is extracted into the scratch directory
ExtractOk ==
    /\ zpc = "extract"
    /\ tree' \in Trees
    /\ zpc' = "find"
    /\ UNCHANGED <<mtime, queue, mpc, zcur, tmpdirs, exc, todo, assets, mapping,
                   md_text, posts, outcome, fvars, dvars>>

\* lines 89-90: the archive is malformed, ZipFile or extractall raises
ExtractRaise ==
    /\ zpc = "extract"
    /\ exc' = TRUE
    /\ zpc' = "finally"
    /\ UNCHANGED <<mtime, queue, mpc, zcur, tmpdirs, tree, todo, assets, mapping,
                   md_text, posts, outcome, fvars, dvars>>

\* lines 93-96: no markdown file, warn and return
FindNone ==
    /\ zpc = "find"
    /\ ~tree.md
    /\ outcome' = Append(outcome, [zip |-> zcur, how |-> "nomd"])
    /\ zpc' = "finally"
    /\ UNCHANGED <<mtime, queue, mpc, zcur, tmpdirs, exc, tree, todo, assets,
                   mapping, md_text, posts, fvars, dvars>>

\* lines 93-106: markdown found, the asset directory made, mapping = {},
\* collect_images
FindMd ==
    /\ zpc = "find"
    /\ tree.md
    /\ assets' = EmptyMap
    /\ mapping' = EmptyMap
    /\ todo' = tree.imgs
    /\ zpc' = "copy"
    /\ UNCHANGED <<mtime, queue, mpc, zcur, tmpdirs, exc, tree, md_text, posts,
                   outcome, fvars, dvars>>

\* lines 106-110: the next image is copied and entered in the mapping
CopyImage ==
    /\ zpc = "copy"
    /\ todo # <<>>
    /\ assets' = CopyAssets(assets, Slug(zcur), Head(todo))
    /\ mapping' = CopyMapping(mapping, Slug(zcur), Head(todo))
    /\ todo' = Tail(todo)
    /\ UNCHANGED <<mtime, queue, mpc, zcur, zpc, tmpdirs, exc, tree, md_text,
                   posts, outcome, fvars, dvars>>

\* line 108: shutil.copy2 raises
CopyRaise ==
    /\ zpc = "copy"
    /\ todo # <<>>
    /\ exc' = TRUE
    /\ zpc' = "finally"
    /\ UNCHANGED <<mtime, queue, mpc, zcur, tmpdirs, tree, todo, assets, mapping,
                   md_text, posts, outcome, fvars, dvars>>

\* line 113: the markdown is read
ReadMd ==
    /\ zpc = "copy"
    /\ todo = <<>>
    /\ md_text' = tree.text
    /\ zpc' = "rewrite"
    /\ UNCHANGED <<mtime, queue, mpc, zcur, tmpdirs, exc, tree, todo, assets,
                   mapping, posts, outcome, fvars, dvars>>

\* line 113: read_text raises (the file is not UTF-8)
ReadRaise ==
    /\ zpc = "copy"
    /\ todo = <<>>
    /\ exc' = TRUE
    /\ zpc' = "finally"
    /\ UNCHANGED <<mtime, queue, mpc, zcur, tmpdirs, tree, todo, assets, mapping,
                   md_text, posts, outcome, fvars, dvars>>

\* lines 116-117: both kinds of image reference are rewritten
Rewrite ==
    /\ zpc = "rewrite"
    /\ md_text' = replace_html_images(
                      replace_markdown_images(md_text, mapping, Slug(zcur)),
                      mapping, Slug(zcur))
    /\ zpc' = "write"
    /\ UNCHANGED <<mtime, queue, mpc, zcur, tmpdirs, exc, tree, todo, assets,
                   mapping, posts, outcome, fvars, dvars>>

\* lines 119-137: front matter + md_text written as the archive's post
WritePost ==
    /\ zpc = "write"
    /\ posts' = posts \cup {Slug(zcur)}
    /\ outcome' = Append(outcome, [zip |-> zcur, how |-> "posted"])
    /\ zpc' = "finally"
    /\ UNCHANGED <<mtime, queue, mpc, zcur, tmpdirs, exc, tree, todo, assets,
                   mapping, md_text, fvars, dvars>>

\* line 134: write_text raises
WriteRaise ==
    /\ zpc = "write"
    /\ exc' = TRUE
    /\ zpc' = "finally"
    /\ UNCHANGED <<mtime, queue, mpc, zcur, tmpdirs, tree, todo, assets, mapping,
                   md_text, posts, outcome, fvars, dvars>>

\* lines 138-139, then back in main's loop: the finally clause after a
\* return or after the end of the try block
FinallyReturn ==
    /\ zpc = "finally"
    /\ ~exc
    /\ tmpdirs' = tmpdirs \ {zcur}
    /\ tree' = NoTree
    /\ todo' = <<>>
    /\ md_text' = <<>>
    /\ assets' = EmptyMap
    /\ mapping' = EmptyMap
    /\ zcur' = 0
    /\ zpc' = "idle"
    /\ mpc' = "loop"
    /\ UNCHANGED <<mtime, queue, exc, posts, outcome, fvars, dvars>>

\* lines 138-139 with an exception in flight: the scratch tree is removed,
\* the exception leaves process_zip and, main catching nothing, ends main
FinallyRaiseNoCleanup ==
    /\ zpc = "finally"
    /\ exc
    /\ outcome' = Append(outcome, [zip |-> zcur, how |-> "raised"])
    /\ zcur' = 0
    /\ zpc' = "idle"
    /\ mpc' = "crashed"
    /\ UNCHANGED <<mtime, queue, tmpdirs, exc, tree, todo, md_text, assets, mapping,
                   posts, fvars, dvars>>
FinallyRaise ==
    /\ zpc = "finally"
    /\ exc
    /\ tmpdirs' = tmpdirs \ {zcur}
    /\ tree' = NoTree
    /\ todo' = <<>>
    /\ md_text' = <<>>
    /\ assets' = EmptyMap
    /\ mapping' = EmptyMap
    /\ outcome' = Append(outcome, [zip |-> zcur, how |-> "raised"])
    /\ zcur' = 0
    /\ zpc' = "idle"
    /\ mpc' = "crashed"
    /\ UNCHANGED <<mtime, queue, exc, posts, fvars, dvars>>

ImpNext ==
    \/ MainUsage
    \/ MainSort
    \/ MainDone
    \/ ZipStart
    \/ ExtractOk
    \/ ExtractRaise
    \/ FindNone
    \/ FindMd
    \/ CopyImage
    \/ CopyRaise
    \/ ReadMd
    \/ ReadRaise
    \/ Rewrite
    \/ WritePost
    \/ WriteRaise
    \/ FinallyReturn
    \/ FinallyRaise

\* ================================================================= claims
\* ---- spaces.py
content == split_content(original)
new_content == SubSeq(new_lines, FrontEnd(original) + 1, Len(new_lines))

\* C1: the reformatter is idempotent: a run on the output of an earlier
\* (writing) run finds new_lines equal to what it read, reports no change
\* and writes nothing.
C1_SecondRunNoChange ==
    (fpc = "compare" /\ runs >= 2 /\ ~dry_run) => new_lines = original

\* C2: when the marker 'imagesstyle.css' occurs anywhere in the document,
\* the front matter included, no stylesheet line is appended: the output is
\* the front matter followed by the processed content and nothing else.
C2_NoAppendWhenMarkerAnywhere ==
    (fpc = "compare" /\ HasNeedle(original))
        => new_lines = split_front(original) \o process_content_lines(content)

\* the closed fenced regions of lines, in order: each from an opening fence
\* line to the fence line closing it, both included (start: the index of the
\* open fence, 0 outside a region)
RECURSIVE RegionsFrom(_, _, _, _)
RegionsFrom(lines, i, start, acc) ==
    IF i > Len(lines) THEN acc
    ELSE IF RE_FENCE(strip(lines[i]))
         THEN IF start = 0
              THEN RegionsFrom(lines, i + 1, i, acc)
              ELSE RegionsFrom(lines, i + 1, 0, Append(acc, SubSeq(lines, start, i)))
         ELSE RegionsFrom(lines, i + 1, start, acc)

ClosedRegions(lines) == RegionsFrom(lines, 1, 0, <<>>)

\* C3: the fenced code regions of the content come out unaltered: the output
\* holds the same closed regions, in the same order, each with the same
\* lines (nothing inserted, dropped, collapsed or given a line ending).
C3_FencedRegionsKept ==
    fpc = "compare" => ClosedRegions(new_content) = ClosedRegions(content)

\* a closed region holds a heading-like or an image-like line between its
\* fences, and the run changed the file's lines
C3_Witness ==
    /\ fpc = "compare"
    /\ new_lines # original
    /\ \E r \in 1..Len(ClosedRegions(content)) :
          LET reg == ClosedRegions(content)[r]
          IN  \E k \in 2..(Len(reg) - 1) :
                 \/ RE_HEADER(strip(reg[k]))
                 \/ RE_IMAGE(strip(reg[k]))

\* the indices of the non-blank lines, ascending
NonBlank(lines) == {i \in 1..Len(lines) : ~IsBlank(lines[i])}

\* the index of the k-th non-blank line; 0 for k = 0, Len + 1 past the last
NonBlankAt(lines, k) ==
    IF k = 0 THEN 0
    ELSE IF k > Cardinality(NonBlank(lines)) THEN Len(lines) + 1
    ELSE CHOOSE i \in NonBlank(lines) :
            Cardinality({j \in NonBlank(lines) : j <= i}) = k

\* the number of blank lines between the k-th non-blank line and the next
\* (before the first for k = 0, after the last for the last k)
Gap(lines, k) == NonBlankAt(lines, k + 1) - NonBlankAt(lines, k) - 1

\* whether the lines up to index i leave the reformatter inside a fence
InFenceAfter(lines, i) ==
    Cardinality({j \in 1..i : RE_FENCE(strip(lines[j]))}) % 2 = 1

\* C4: every run of two or more blank lines of the content outside fenced
\* code, the runs at its very start and very end included, is exactly one
\* blank line at that position of the output.
C4_BlankRunsCollapse ==
    fpc = "compare" =>
        \A k \in 0..Cardinality(NonBlank(content)) :
            (/\ Gap(content, k) >= 2
             /\ ~InFenceAfter(content, NonBlankAt(content, k)))
                => Gap(new_content, k) = 1

\* C5: the file is overwritten only in a run that is not a dry run and whose
\* new_lines differ from the lines read, and only when the backup already
\* holds the bytes about to be overwritten; a backup is made only in such a
\* run and holds the file's bytes; a dry run or an unchanged result writes
\* neither.
C5_WriteProtocol ==
    [][ /\ (ops' # ops /\ ops'[Len(ops')] = "write")
            => (~dry_run /\ new_lines # original /\ bak = file
                /\ ops # <<>> /\ ops[Len(ops)] = "copy2")
        /\ (ops' # ops /\ ops'[Len(ops')] = "copy2")
            => (~dry_run /\ new_lines # original /\ bak' = file)
        /\ (file' # file \/ bak' # bak) => ops' # ops
        /\ (fpc = "compare" /\ (dry_run \/ new_lines = original))
            => (file' = file /\ bak' = bak /\ ops' = ops)
      ]_vars

\* a run has backed the file up and overwritten it with different bytes
C5_Witness ==
    /\ fpc = "returned" /\ ret = "True"
    /\ ops = <<"copy2", "write">>
    /\ bak # NoFile /\ bak # file

\* ---- fix_dates.py
\* the line, without its line ending, matches ^date:\s+.*$
DateLine(line) ==
    LET body == IF EndsNL(line) THEN SubSeq(line, 1, Len(line) - 1) ELSE line
    IN  Len(body) >= 2 /\ body[1] = "date:" /\ IsSpace(body[2])

\* what the normalizer is to make of one line
DateFixed(line) ==
    IF DateLine(line)
    THEN DateRepl \o (IF EndsNL(line) THEN <<NL>> ELSE <<>>)
    ELSE line

\* C8: every line matching the date pattern is replaced by
\* 'date:   <literal>' and every other line is left as it was (same lines,
\* same order, same count); a file with no matching line is not written and
\* is reported unchanged.
C8_OnlyDateLinesChange ==
    dpc = "done" =>
        LET old == readlines(dtext)
        IN  /\ readlines(dfile) = [i \in 1..Len(old) |-> DateFixed(old[i])]
            /\ (\A i \in 1..Len(old) : ~DateLine(old[i]))
                  => (dfile = dtext /\ dwrites = 0 /\ dlog = "INFO")

\* ---- automation.py
\* C6: no scratch directory survives the processing of its archive: the only
\* one that may exist is that of the archive process_zip is working on,
\* whichever way process_zip leaves (post written, no markdown, exception).
C6_ScratchRemoved ==
    \A d \in tmpdirs : mpc = "in_zip" /\ d = zcur

\* process_zip has left once by its early return and once by an exception,
\* and no scratch directory is there
C6_Witness ==
    /\ tmpdirs = {}
    /\ Len(outcome) = 2
    /\ outcome[1].how = "nomd"
    /\ outcome[2].how = "raised"

\* C7: a failing archive does not end the batch: main ends only once
\* process_zip has been called on every archive, oldest modification time
\* first.
C7_BatchContinues ==
    mpc \in {"done", "crashed"} =>
        /\ {outcome[i].zip : i \in 1..Len(outcome)} = Zips
        /\ \A i, j \in 1..Len(outcome) :
              i < j => mtime[outcome[i].zip] <= mtime[outcome[j].zip]

\* lines 105-110 over the images in the order l
RECURSIVE CopyAllFrom(_, _, _, _)
CopyAllFrom(l, slug, a, m) ==
    IF l = <<>> THEN <<a, m>>
    ELSE CopyAllFrom(Tail(l), slug, CopyAssets(a, slug, Head(l)),
                     CopyMapping(m, slug, Head(l)))

\* the orders the images of l can be collected in
PermsOf(l) ==
    {p \in [1..Len(l) -> Range(l)] : \A i, j \in 1..Len(l) : i # j => p[i] # p[j]}

\* no two images share their sanitized name, letter case aside
NoClash(l) ==
    \A i, j \in 1..Len(l) :
        i # j => lower(sanitize_img(l[i].name)) # lower(sanitize_img(l[j].name))

\* C9 as stated: whatever the images, every order of copying them gives the
\* asset directory and the mapping the run produced.
C9_AnyOrderSameResult ==
    zpc = "rewrite" =>
        \A p \in PermsOf(tree.imgs) :
            CopyAllFrom(p, Slug(zcur), EmptyMap, EmptyMap) = <<assets, mapping>>

\* C9 as amended: for images no two of which share their sanitized name
\* (letter case aside), every order of copying them gives the asset
\* directory and the mapping the run produced.
C9_AnyOrderSameResultNoClash ==
    (zpc = "rewrite" /\ NoClash(tree.imgs)) =>
        \A p \in PermsOf(tree.imgs) :
            CopyAllFrom(p, Slug(zcur), EmptyMap, EmptyMap) = <<assets, mapping>>

\* two images or more without a clash have been copied
C9_Witness ==
    /\ zpc = "rewrite"
    /\ Len(tree.imgs) >= 2
    /\ NoClash(tree.imgs)
    /\ Cardinality(DOMAIN assets) = Len(tree.imgs)

\* the attributes, other than src, the tags of the model's documents carry
AttrTokens == {"alt=x", "w=3"}
IsAttr(t) == t \in AttrTokens
AttrsOf(text) == SelectSeq(text, IsAttr)

\* C10: rewriting keeps every attribute other than src of every <img> tag,
\* before src or after it, and leaves the document as it is when no source
\* is in the mapping.
C10_AttributesKept ==
    zpc = "write" =>
        /\ AttrsOf(md_text) = AttrsOf(tree.text)
        /\ mapping = EmptyMap => md_text = tree.text

\* ---------------------------------------------------------- specifications
SpecFmt == FmtInit /\ [][FmtNext]_vars

SpecDate == DateInit /\ [][DateNext]_vars

SpecImp == ImpInit /\ [][ImpNext]_vars

====
